---- MODULE Spec2Model ----
(***************************************************************************)
(* Model of the image pipeline of src/app.py: process_image (size check,   *)
(* display, text reading, sentiment), GetTextRead (OCR call, overlay       *)
(* drawing, text aggregation) and sentiment_analysis.                      *)
(*                                                                         *)
(* Strings are sequences of one-character strings.  A PIL image object is  *)
(* an entry of `heap`; its pixels are the sequence of drawing operations   *)
(* applied to it since Image.open.  `ui` is the sequence of Streamlit      *)
(* outputs (st.write / st.error / st.image) and `calls` the sequence of    *)
(* remote service calls, both in program order.                            *)
(***************************************************************************)
EXTENDS Integers, Sequences, FiniteSets, TLC

VARIABLES pc, image_data_size, ui, heap, image, calls, result,
          extracted_text, draw_calls, response

vars == <<pc, image_data_size, ui, heap, image, calls, result,
          extracted_text, draw_calls, response>>

\* ---------------------------------------------------------------- bounds
MaxBlocks == 2
MaxLines == 2
MaxPts == 2
MaxSentences == 1

\* ------------------------------------------------------- input domains
\* len(image_data) values around both limits of the size check.
Sizes == {0, 1, 20971520, 20971521, 20971522}

\* line.text values: plain, blank, and with leading and trailing blanks.
Texts == {<<"a">>, <<" ">>, <<" ", "b", " ">>}

\* The i-th vertex the service returns for a polygon (an ImagePoint).
Vertex(i) == [x |-> 10 * i, y |-> 5 * i]

\* line.bounding_polygon: None, or a list of 0..MaxPts points.
NoPolygon == [present |-> FALSE, pts |-> <<>>]

Polygons ==
    {NoPolygon} \cup
    {[present |-> TRUE, pts |-> [i \in 1..n |-> Vertex(i)]] : n \in 0..MaxPts}

Lines == [text : Texts, bounding_polygon : Polygons]

RECURSIVE SumTo(_, _)
SumTo(s, n) == IF n = 0 THEN 0 ELSE s[n] + SumTo(s, n - 1)

\* Numbers of lines per block: at most MaxBlocks blocks, MaxLines lines in all.
Shapes ==
    {s \in UNION {[1..n -> 0..MaxLines] : n \in 0..MaxBlocks} :
        SumTo(s, Len(s)) <= MaxLines}

SplitBlocks(flat, s) ==
    [b \in 1..Len(s) |-> [j \in 1..s[b] |-> flat[SumTo(s, b - 1) + j]]]

\* result.read.blocks: every list of blocks of lines within the bounds.
ReadBlocks ==
    UNION {{SplitBlocks(flat, s) : flat \in [1..SumTo(s, Len(s)) -> Lines]} :
              s \in Shapes}

\* Outcome of cv_client.analyze: it raises, or result.read is None, or
\* result.read holds blocks.
AnalyzeOutcomes ==
    {[kind |-> "throw", blocks |-> <<>>], [kind |-> "none", blocks |-> <<>>]}
    \cup {[kind |-> "read", blocks |-> b] : b \in ReadBlocks}

NotAnalyzed == [kind |-> "not_called", blocks |-> <<>>]

\* Outcome of text_client.analyze_sentiment([text])[0]: the call (or the
\* indexing) raises; the document comes back as an error entry, whose
\* .sentiment cannot be read; or a result with n sentences.
SentimentOutcomes ==
    {[kind |-> "throw", sentences |-> 0], [kind |-> "error_doc", sentences |-> 0]}
    \cup {[kind |-> "ok", sentences |-> n] : n \in 0..MaxSentences}

NoResponse == [kind |-> "not_called", sentences |-> 0]

\* ------------------------------------------------------------ UI events
Write(m) == [op |-> "write", msg |-> m, text |-> <<>>, ref |-> 0, pixels |-> <<>>]
WriteText(t) == [op |-> "write", msg |-> "text", text |-> t, ref |-> 0, pixels |-> <<>>]
Error(m) == [op |-> "error", msg |-> m, text |-> <<>>, ref |-> 0, pixels |-> <<>>]
ShowImage(cap, r, px) == [op |-> "image", msg |-> cap, text |-> <<>>, ref |-> r, pixels |-> px]

\* --------------------------------------------------------- Python values
None == [some |-> FALSE, text |-> <<>>]
Str(t) == [some |-> TRUE, text |-> t]

\* str.strip(): drop leading and trailing whitespace.
RECURSIVE LStrip(_)
LStrip(s) == IF s # <<>> /\ Head(s) = " " THEN LStrip(Tail(s)) ELSE s

RECURSIVE RStrip(_)
RStrip(s) ==
    IF s # <<>> /\ s[Len(s)] = " " THEN RStrip(SubSeq(s, 1, Len(s) - 1)) ELSE s

Strip(s) == RStrip(LStrip(s))

\* `if extracted_text:` -- None and "" are falsy.
Truthy_always(v) == TRUE
Truthy_notNone(v) == v.some
Truthy(v) == v.some /\ v.text # <<>>

\* `if line.bounding_polygon:` -- None and [] are falsy.
PolygonTruthy(p) == p.present /\ Len(p.pts) > 0

\* ------------------------------------------------------------- drawing
\* Line 158: the points of the polygon as (x, y) tuples, in the order given.
BoundingPolygon(r) == [i \in 1..Len(r) |-> <<r[i].x, r[i].y>>]

\* draw.polygon (line 159) raises TypeError, "coordinate list must contain
\* at least 2 coordinates", when it is handed fewer than two points.
PolygonRaises(xy) == Len(xy) < 2

DrawPolygon(xy) == [op |-> "polygon", xy |-> xy, text |-> <<>>]
DrawText(at, t) == [op |-> "text", xy |-> <<at>>, text |-> t]

\* State of the loop of lines 152-162: the text accumulated so far, the
\* pixels of original_image, the draw.polygon calls issued, and whether an
\* exception has left the loop.
LoopStart(px) ==
    [extracted_text |-> <<>>, pixels |-> px, draw_calls |-> <<>>, raised |-> FALSE]

\* Lines 154-162, one line of a block.
LineStep(line, st) ==
    IF st.raised THEN st
    ELSE LET t == st.extracted_text \o line.text \o <<" ">>
         IN IF ~PolygonTruthy(line.bounding_polygon)
            THEN [st EXCEPT !.extracted_text = t]
            ELSE LET bounding_polygon == BoundingPolygon(line.bounding_polygon.pts)
                 IN IF PolygonRaises(bounding_polygon)
                    THEN [st EXCEPT !.extracted_text = t,
                                    !.draw_calls = Append(@, bounding_polygon),
                                    !.raised = TRUE]
                    ELSE [st EXCEPT !.extracted_text = t,
                                    !.draw_calls = Append(@, bounding_polygon),
                                    !.pixels = @ \o <<DrawPolygon(bounding_polygon),
                                                      DrawText(bounding_polygon[1], line.text)>>]

\* Line 153: for line in block.lines
RECURSIVE LoopLines(_, _)
LoopLines(lines, st) ==
    IF lines = <<>> THEN st ELSE LoopLines(Tail(lines), LineStep(Head(lines), st))

\* Line 152: for block in result.read.blocks
RECURSIVE LoopBlocks(_, _)
LoopBlocks(blocks, st) ==
    IF blocks = <<>> THEN st
    ELSE LoopBlocks(Tail(blocks), LoopLines(Head(blocks), st))

\* GetTextRead(image_file, image_data, original_image) for one outcome `res`
\* of cv_client.analyze: what it displays, the pixels it leaves in the image
\* object original_image, the draw.polygon calls, and the value it returns.
\* ImageDraw.Draw(original_image) draws into original_image itself.
GetTextReadEffect(res, original_image, px) ==
    IF res.kind = "throw"
    THEN [ui |-> <<Error("text_reading")>>, pixels |-> px,
          draw_calls |-> <<>>, ret |-> None]
    ELSE IF res.kind = "none"
    THEN [ui |-> <<Write("no_text_found")>>, pixels |-> px,
          draw_calls |-> <<>>, ret |-> None]
    ELSE LET st == LoopBlocks(res.blocks, LoopStart(px))
         IN IF st.raised
            THEN [ui |-> <<Error("text_reading")>>, pixels |-> st.pixels,
                  draw_calls |-> st.draw_calls, ret |-> None]
            ELSE [ui |-> <<Write("text_found"),
                           WriteText(Strip(st.extracted_text)),
                           ShowImage("processed", original_image, st.pixels)>>,
                  pixels |-> st.pixels,
                  draw_calls |-> st.draw_calls,
                  ret |-> Str(Strip(st.extracted_text))]

\* sentiment_analysis(text) for one outcome `resp` of the service call:
\* the header is written before response.sentiment is read.
RECURSIVE SentenceWrites(_)
SentenceWrites(n) ==
    IF n = 0 THEN <<>>
    ELSE SentenceWrites(n - 1) \o <<Write("sentence"), Write("sentence_sentiment")>>

SentimentEffect(resp) ==
    IF resp.kind = "throw" THEN <<Error("sentiment")>>
    ELSE IF resp.kind = "error_doc"
    THEN <<Write("sentiment_header"), Error("sentiment")>>
    ELSE <<Write("sentiment_header"), Write("document_sentiment")>>
         \o SentenceWrites(resp.sentences)

\* ---------------------------------------------------------- size check
\* Line 78
ImageTooLarge_ge(size) == size >= 20971520
ImageTooLarge(size) == size > 20971520

\* Lines 75-80: the error that ends the request, or "none".
ValidationError_emptyOnly(size) == IF size = 0 THEN "empty" ELSE "none"
ValidationError(size) ==
    IF size = 0 THEN "empty"
    ELSE IF ImageTooLarge(size) THEN "too_large"
    ELSE "none"

\* ---------------------------------------------------------------- Init
Init ==
    /\ pc = "start"
    /\ image_data_size \in Sizes
    /\ ui = <<>>
    /\ heap = <<>>
    /\ image = 0
    /\ calls = <<>>
    /\ result = NotAnalyzed
    /\ extracted_text = None
    /\ draw_calls = <<>>
    /\ response = NoResponse

\* ------------------------------------------------------------- actions
\* process_image, lines 71-80: show the size, reject empty and oversized data.
process_image_validate ==
    /\ pc = "start"
    /\ LET err == ValidationError(image_data_size)
       IN /\ ui' = IF err = "none" THEN Append(ui, Write("image_size"))
                   ELSE ui \o <<Write("image_size"), Error(err)>>
          /\ pc' = IF err = "none" THEN "display" ELSE "done"
    /\ UNCHANGED <<image_data_size, heap, image, calls, result,
                   extracted_text, draw_calls, response>>

\* process_image, lines 83-85: open the image and display it.
process_image_display ==
    /\ pc = "display"
    /\ heap' = Append(heap, <<>>)
    /\ image' = Len(heap) + 1
    /\ ui' = ui \o <<ShowImage("uploaded", Len(heap) + 1, <<>>), Write("analyzing")>>
    /\ pc' = "read"
    /\ UNCHANGED <<image_data_size, calls, result, extracted_text,
                   draw_calls, response>>

\* process_image, lines 88-89: extracted_text = GetTextRead(...), then the
\* test that decides whether sentiment_analysis runs.
process_image_read ==
    /\ pc = "read"
    /\ \E res \in AnalyzeOutcomes :
          LET eff == GetTextReadEffect(res, image, heap[image])
          IN /\ calls' = Append(calls, "ocr")
             /\ result' = res
             /\ heap' = [heap EXCEPT ![image] = eff.pixels]
             /\ draw_calls' = eff.draw_calls
             /\ ui' = ui \o eff.ui
             /\ extracted_text' = eff.ret
             /\ pc' = IF Truthy(eff.ret) THEN "sentiment" ELSE "done"
    /\ UNCHANGED <<image_data_size, image, response>>

\* process_image, line 90: sentiment_analysis(extracted_text), lines 178-187.
sentiment_analysis ==
    /\ pc = "sentiment"
    /\ \E resp \in SentimentOutcomes :
          /\ calls' = Append(calls, "sentiment")
          /\ response' = resp
          /\ ui' = ui \o SentimentEffect(resp)
    /\ pc' = "done"
    /\ UNCHANGED <<image_data_size, heap, image, result, extracted_text,
                   draw_calls>>

Next ==
    \/ process_image_validate
    \/ process_image_display
    \/ process_image_read
    \/ sentiment_analysis

Spec == Init /\ [][Next]_vars

TypeOK ==
    /\ pc \in {"start", "display", "read", "sentiment", "done"}
    /\ image_data_size \in Sizes
    /\ image \in 0..1
    /\ Len(heap) = image
    /\ result \in AnalyzeOutcomes \cup {NotAnalyzed}
    /\ response \in SentimentOutcomes \cup {NoResponse}

\* ===================================================== claim vocabulary
Shown(e) == \E i \in 1..Len(ui) : ui[i] = e
ShownMsg(m) == \E i \in 1..Len(ui) : ui[i].msg = m
AnyError == \E i \in 1..Len(ui) : ui[i].op = "error"
Called(c) == \E i \in 1..Len(calls) : calls[i] = c
Count(c) == Cardinality({i \in 1..Len(calls) : calls[i] = c})
ReadReturned == result.kind = "read" /\ pc \in {"sentiment", "done"}

\* All lines of a recognition result, block by block, line by line.
RECURSIVE FlatLines(_)
FlatLines(blocks) ==
    IF blocks = <<>> THEN <<>> ELSE Head(blocks) \o FlatLines(Tail(blocks))

\* The texts of the lines joined by one space, then trimmed.
RECURSIVE JoinTexts(_)
JoinTexts(ls) ==
    IF ls = <<>> THEN <<>>
    ELSE IF Len(ls) = 1 THEN ls[1].text
    ELSE ls[1].text \o <<" ">> \o JoinTexts(Tail(ls))

Aggregated(blocks) == Strip(JoinTexts(FlatLines(blocks)))

\* The polygons that are to be drawn (two points or more), as (x, y) lists
\* in the order received, in block-then-line order.
RECURSIVE DrawablePolygons(_)
DrawablePolygons(ls) ==
    IF ls = <<>> THEN <<>>
    ELSE LET p == ls[1].bounding_polygon
         IN (IF p.present /\ Len(p.pts) >= 2
             THEN <<[i \in 1..Len(p.pts) |-> <<p.pts[i].x, p.pts[i].y>>]>>
             ELSE <<>>)
            \o DrawablePolygons(Tail(ls))

\* The polygons on an image, in drawing order.
RECURSIVE PolygonsOn(_)
PolygonsOn(px) ==
    IF px = <<>> THEN <<>>
    ELSE (IF px[1].op = "polygon" THEN <<px[1].xy>> ELSE <<>>) \o PolygonsOn(Tail(px))

HasShortPolygon(blocks) ==
    \E i \in 1..Len(FlatLines(blocks)) :
        LET p == FlatLines(blocks)[i].bounding_polygon
        IN p.present /\ Len(p.pts) < 2

NoTextFound ==
    \/ result.kind = "none"
    \/ /\ result.kind = "read"
       /\ \A i \in 1..Len(FlatLines(result.blocks)) :
             Strip(FlatLines(result.blocks)[i].text) = <<>>

\* =============================================================== claims

\* C1: once the size check has run, the request proceeds past it iff
\* 0 < L <= 20,971,520; L = 0 ends it with the empty-image error and
\* L > 20,971,520 ends it with the image-too-large error.
C1_ValidationBySize ==
    pc # "start" =>
        /\ (pc # "done" \/ image # 0)
              <=> (0 < image_data_size /\ image_data_size <= 20971520)
        /\ image_data_size = 0 =>
              pc = "done" /\ ui = <<Write("image_size"), Error("empty")>>
        /\ image_data_size > 20971520 =>
              pc = "done" /\ ui = <<Write("image_size"), Error("too_large")>>

C1_Witness ==
    pc = "done" /\ image_data_size = 20971521 /\ Shown(Error("too_large"))

\* C2: no service call is made before the size check has passed, and none
\* at all when the size check fails.
C2_ValidationBeforeNetwork ==
    /\ pc = "start" => calls = <<>>
    /\ (image_data_size = 0 \/ image_data_size > 20971520) => calls = <<>>
    /\ calls # <<>> =>
          /\ 0 < image_data_size /\ image_data_size <= 20971520
          /\ calls[1] = "ocr"

C2_Witness ==
    pc = "done" /\ image_data_size = 20971522 /\ AnyError /\ calls = <<>>

\* C3: for a response that carries a read result, GetTextRead returns the
\* texts of all lines in block-then-line order, joined by one space and
\* trimmed, whatever the polygons of the lines are.
C3_AggregatedText ==
    ReadReturned => extracted_text = Str(Aggregated(result.blocks))

\* C4: when the service finds no text, the returned text is empty, the
\* sentiment service is not called and no error is reported.
C4_NoTextSkipsSentiment ==
    (NoTextFound /\ pc = "done") =>
        /\ ~Truthy(extracted_text)
        /\ ~Called("sentiment")
        /\ ~AnyError

\* C5: when the OCR call raises, the request ends with the text-reading
\* error; nothing is drawn on the image, no text is aggregated or displayed
\* and the sentiment service is not called.
C5_OcrFailureAborts ==
    result.kind = "throw" =>
        /\ pc = "done"
        /\ Shown(Error("text_reading"))
        /\ heap[image] = <<>>
        /\ draw_calls = <<>>
        /\ extracted_text = None
        /\ ~ShownMsg("text_found") /\ ~ShownMsg("text") /\ ~ShownMsg("processed")
        /\ calls = <<"ocr">>

C5_Witness ==
    result.kind = "throw" /\ pc = "done" /\ Shown(Error("text_reading"))

\* C6: after GetTextRead has drawn the overlay, the source image object has
\* the pixels it had when it was opened, and the annotated image that is
\* displayed is another object.
C6_SourceImageUntouched ==
    (ReadReturned /\ extracted_text.some /\ draw_calls # <<>>) =>
        /\ heap[image] = <<>>
        /\ \A i \in 1..Len(ui) : ui[i].msg = "processed" => ui[i].ref # image

\* C7: exactly the lines that carry a polygon are drawn, once each, in
\* block-then-line order with the vertices in the order received; no other
\* draw is issued, and the text of every line is in the returned text.
C7_OnePolygonPerLine ==
    ReadReturned =>
        /\ PolygonsOn(heap[image]) = DrawablePolygons(FlatLines(result.blocks))
        /\ draw_calls = DrawablePolygons(FlatLines(result.blocks))
        /\ extracted_text.some
        /\ extracted_text.text = Aggregated(result.blocks)

\* C8: a line whose polygon has fewer than 2 points is skipped silently: no
\* draw is attempted for it, no error is reported, the other lines are
\* drawn, the full text is returned and sentiment analysis follows.
C8_ShortPolygonSkipped ==
    (ReadReturned /\ HasShortPolygon(result.blocks)) =>
        /\ \A i \in 1..Len(draw_calls) : Len(draw_calls[i]) >= 2
        /\ ~Shown(Error("text_reading"))
        /\ PolygonsOn(heap[image]) = DrawablePolygons(FlatLines(result.blocks))
        /\ extracted_text = Str(Aggregated(result.blocks))
        /\ Aggregated(result.blocks) # <<>> => (pc = "sentiment" \/ Called("sentiment"))

\* C9: when the OCR call or the sentiment stage fails, the error message is
\* displayed and nothing else of that stage: after a failure in
\* sentiment_analysis neither the header, the document label nor a sentence
\* has been displayed.
C9_NoPartialResults ==
    /\ result.kind = "throw" =>
          /\ Shown(Error("text_reading"))
          /\ ~ShownMsg("text_found") /\ ~ShownMsg("text") /\ ~ShownMsg("processed")
    /\ response.kind \in {"throw", "error_doc"} =>
          /\ Shown(Error("sentiment"))
          /\ ~ShownMsg("sentiment_header")
          /\ ~ShownMsg("document_sentiment")
          /\ ~ShownMsg("sentence")

\* C10: each service is called at most once per request; the sentiment
\* service is called only after the OCR call has returned normally with a
\* non-empty trimmed text, and a failed call is not repeated.
C10_SequentialNoRetry ==
    /\ Count("ocr") <= 1
    /\ Count("sentiment") <= 1
    /\ (pc = "sentiment" \/ Called("sentiment")) =>
          /\ calls \in {<<"ocr">>, <<"ocr", "sentiment">>}
          /\ result.kind = "read"
          /\ ~Shown(Error("text_reading"))
          /\ extracted_text.some
          /\ extracted_text.text # <<>>
          /\ extracted_text.text = Strip(extracted_text.text)
    /\ (result.kind = "throw" \/ response.kind \in {"throw", "error_doc"}) =>
          pc = "done"

C10_Witness ==
    /\ pc = "done"
    /\ calls = <<"ocr", "sentiment">>
    /\ response.kind = "throw"

====
